---- MODULE Spec2Model ----
(***************************************************************************)
(* Model of move-objects-between-dg.py: the batch driver main(), the move  *)
(* orchestrator move_one(), the scope addressing and parsing helpers, the  *)
(* buffered audit log, and the remote Panorama configuration store the     *)
(* script talks to.                                                        *)
(*                                                                         *)
(* Python strings that the script converts (strip, lower, slicing,         *)
(* concatenation) are sequences of one-character strings.  Optional values *)
(* are sequences of length at most one: << >> is None, <<v>> is v.         *)
(***************************************************************************)
EXTENDS Integers, Sequences, FiniteSets, TLC

\* ---------------------------------------------------------------- bounds
\* Largest number of data rows in the input CSV.
MaxRows == 2

\* Number of records the audit file object's buffer holds before a further
\* write pushes the buffered ones through to the file.
MaxBuffered == 1

\* ------------------------------------------------------- string helpers
UpperCase == <<"A","B","C","D","E","F","G","H","I","J","K","L","M",
               "N","O","P","Q","R","S","T","U","V","W","X","Y","Z">>

LowerCase == <<"a","b","c","d","e","f","g","h","i","j","k","l","m",
               "n","o","p","q","r","s","t","u","v","w","x","y","z">>

Whitespace == {" ", "\t", "\n", "\r"}

LowerChar(c) ==
    IF \E k \in 1..Len(UpperCase) : UpperCase[k] = c
    THEN LowerCase[CHOOSE k \in 1..Len(UpperCase) : UpperCase[k] = c]
    ELSE c

\* str.lower()
Lower(s) == [k \in 1..Len(s) |-> LowerChar(s[k])]

RECURSIVE LStrip(_)
LStrip(s) ==
    IF s # << >> /\ Head(s) \in Whitespace THEN LStrip(Tail(s)) ELSE s

RECURSIVE RStrip(_)
RStrip(s) ==
    IF s # << >> /\ s[Len(s)] \in Whitespace
    THEN RStrip(SubSeq(s, 1, Len(s) - 1))
    ELSE s

\* str.strip()
Strip(s) == RStrip(LStrip(s))

\* x or y, for x an optional string: None and "" are both falsy
Truthy(opt) == opt # << >> /\ opt[1] # << >>

\* --------------------------------------------------------- literals
s_shared == <<"s","h","a","r","e","d">>

s_skip == <<"s","k","i","p">>

s_overwrite == <<"o","v","e","r","w","r","i","t","e">>

t_address == <<"a","d","d","r","e","s","s">>

t_address_group == <<"a","d","d","r","e","s","s","-","g","r","o","u","p">>

t_service == <<"s","e","r","v","i","c","e">>

t_service_group == <<"s","e","r","v","i","c","e","-","g","r","o","u","p">>

SUPPORTED_TYPES ==
    [t \in {t_address, t_address_group, t_service, t_service_group} |-> t]

\* ------------------------------------------------------------- inputs
\* object_name column
Names == { <<"w","e","b","0","1">> }

\* object_type column: a supported type spelled so that it needs both
\* strip and lower (the plain spelling behaves the same), an unsupported one
Types == { <<" ","A","d","d","r","e","s","s">>,
           <<"h","o","s","t">> }

\* src_scope / dst_scope columns
Scopes == { s_shared,
            <<"S","h","a","r","e","d">>,
            <<"D","G","-","A">> }

\* Value of the MOVE_COLLISION environment variable; << >> is "not set",
\* which selects skip.
PolicyEnvs == { << >>,
                << <<" ","O","v","e","r","w","r","i","t","e">> >>,
                << <<"m","e","r","g","e">> >> }

Requests ==
    [object_name : Names, object_type : Types,
     src_scope : Scopes, dst_scope : Scopes]

\* Entry bodies the store may hold initially: child path -> texts of the
\* elements at that path, in document order.
Bodies ==
    { [p \in {"./ip-netmask"} |-> << <<"1","0",".","0",".","0",".","5">> >>],
      [p \in {"./fqdn", "./description"} |->
          IF p = "./fqdn" THEN << <<"a",".","b">> >> ELSE << <<"d","b">> >>] }

\* ---------------------------------------------------- scope addressing
\* An xpath is kept as the parts the f-strings put together; ContainerText
\* and EntryText below give the string itself.
container_xpath_for_scope(scope, obj_type) ==
    LET node == SUPPORTED_TYPES[obj_type] IN
    IF Lower(scope) = s_shared
    THEN [root |-> "/config/shared", dg |-> << >>, node |-> node]
    ELSE [root |-> "/config/devices/entry[@name='localhost.localdomain']/device-group",
          dg |-> <<scope>>, node |-> node]

entry_xpath_for_scope(scope, obj_type, name) ==
    [container |-> container_xpath_for_scope(scope, obj_type), entry |-> name]

\* ------------------------------------------------------ remote store
\* The store maps the xpath of an <entry> to the element stored there.
\* Entry paths the store may hold initially.
StorePaths ==
    { entry_xpath_for_scope(s, t_address, n) :
          s \in {s_shared, <<"D","G","-","A">>}, n \in Names }

Stores ==
    UNION { [D -> Bodies] : D \in SUBSET StorePaths }

MkEntry(name, children) == [name |-> name, children |-> children]

\* Body of a successful 'get' response for xpath.
StoreGet(st, xpath) ==
    IF xpath \in DOMAIN st
    THEN [kind |-> "xml", entries |-> << MkEntry(xpath.entry, st[xpath]) >>]
    ELSE [kind |-> "xml", entries |-> << >>]

\* A response body that is not well-formed XML.
Garbage == [kind |-> "garbage", entries |-> << >>]

\* Effect of a successful 'set' of element_xml at a container xpath.
StoreSet(st, xpath, element_xml) ==
    LET e == element_xml.elem
        p == [container |-> xpath, entry |-> e.name]
    IN  [q \in DOMAIN st \cup {p} |-> IF q = p THEN e.children ELSE st[q]]

\* Effect of a successful 'delete' at an entry xpath.
StoreDelete(st, xpath) == [q \in DOMAIN st \ {xpath} |-> st[q]]

\* ----------------------------------------------------- parsing helpers
\* Variant that hands back an empty element where no entry was found.
extract_entry_xml_NeverNone(api_xml) ==
    IF api_xml.entries = << >>
    THEN << MkEntry(<< >>, [p \in {} |-> << >>]) >>
    ELSE << Head(api_xml.entries) >>

extract_entry_xml(api_xml) ==
    IF api_xml.kind = "garbage" THEN << >>
    ELSE IF api_xml.entries = << >> THEN << >>
    ELSE << Head(api_xml.entries) >>

serialize_entry(elem) == [kind |-> "entry", elem |-> elem]

findall(entry_elem, path) ==
    IF path \in DOMAIN entry_elem.children THEN entry_elem.children[path] ELSE << >>

findtext(entry_elem, path) ==
    IF findall(entry_elem, path) = << >> THEN << >>
    ELSE << Head(findall(entry_elem, path)) >>

\* a or b or ... or "" over optional strings
RECURSIVE FirstTruthy(_)
FirstTruthy(opts) ==
    IF opts = << >> THEN << >>
    ELSE IF Truthy(Head(opts)) THEN Head(opts)[1]
    ELSE FirstTruthy(Tail(opts))

Digits == <<"0","1","2","3","4","5","6","7","8","9">>

\* str(n) for the small counts that occur
RECURSIVE IntStr(_)
IntStr(n) == IF n < 10 THEN <<Digits[n + 1]>>
             ELSE IntStr(n \div 10) \o <<Digits[(n % 10) + 1]>>

NonEmptyTexts(texts) == SelectSeq(texts, LAMBDA t : t # << >>)

Prefix80(s) == SubSeq(s, 1, IF Len(s) < 80 THEN Len(s) ELSE 80)

\* Variant that returns the address summary as formatted, untrimmed.
make_summary_NoStrip(obj_type, entry_elem) ==
    IF obj_type = t_address THEN
        LET ip == FirstTruthy(<< findtext(entry_elem, "./ip-netmask"),
                                 findtext(entry_elem, "./ip-range"),
                                 findtext(entry_elem, "./fqdn") >>)
            desc == FirstTruthy(<< findtext(entry_elem, "./description") >>)
        IN  t_address \o <<":"," ">> \o ip \o <<" ","|"," ">> \o desc
    ELSE << >>

make_summary(obj_type, entry_elem) ==
    IF obj_type = t_address THEN
        LET ip == FirstTruthy(<< findtext(entry_elem, "./ip-netmask"),
                                 findtext(entry_elem, "./ip-range"),
                                 findtext(entry_elem, "./fqdn") >>)
            desc == FirstTruthy(<< findtext(entry_elem, "./description") >>)
        IN  Strip(t_address \o <<":"," ">> \o ip \o <<" ","|"," ">> \o desc)
    ELSE IF obj_type = t_address_group THEN
        LET dynamic == findtext(entry_elem, "./dynamic/filter")
            members == NonEmptyTexts(findall(entry_elem, "./static/member"))
        IN  IF Truthy(dynamic)
            THEN <<"a","d","d","r","-","g","r","o","u","p","(","d","y","n","a","m","i","c",")",
                   ":"," ","f","i","l","t","e","r","=","'">> \o Prefix80(dynamic[1]) \o <<"'">>
            ELSE <<"a","d","d","r","-","g","r","o","u","p","(","s","t","a","t","i","c",")",
                   ":"," ","m","e","m","b","e","r","s","=">> \o IntStr(Len(members))
    ELSE IF obj_type = t_service THEN
        LET proto == FirstTruthy(<< findtext(entry_elem, "./protocol/tcp/port"),
                                    findtext(entry_elem, "./protocol/udp/port") >>)
            desc == FirstTruthy(<< findtext(entry_elem, "./description") >>)
        IN  Strip(t_service \o <<":"," ">> \o proto \o <<" ","|"," ">> \o desc)
    ELSE IF obj_type = t_service_group THEN
        LET members == NonEmptyTexts(findall(entry_elem, "./members/member"))
        IN  t_service_group \o <<":"," ","m","e","m","b","e","r","s","=">>
                \o IntStr(Len(members))
    ELSE << >>

detect_addr_group_reference_risk(obj_type, entry_opt) ==
    IF obj_type \notin {t_address_group, t_service_group} \/ entry_opt = << >>
    THEN FALSE
    ELSE TRUE

\* ---------------------------------------------------------------- state
VARIABLES
    pc,                \* position of the single thread of control
    policy_env,        \* MOVE_COLLISION in the environment (optional string)
    nRows,             \* number of data rows in the input CSV
    store,             \* the remote configuration store
    collision_policy,  \* main: collision_policy
    i,                 \* number of rows the csv reader has yielded
    count,             \* main: count
    req,               \* the stripped fields of the current row
    obj_type,          \* move_one: obj_type after strip().lower()
    entry_elem,        \* move_one: entry_elem (optional element)
    calls,             \* remote calls issued by the current move_one
    store0,            \* the store as it was when the current move_one began
    log_buf,           \* audit rows written but still in the file buffer
    log_file,          \* audit rows that reached the audit file
    emitted,           \* every audit row move_one has passed to writerow
    abort_cause,       \* why the process ended abnormally, "" if it has not
    fn_in,             \* arguments of a helper function applied on its own
    fn_out             \* its result (optional)

vars == << pc, policy_env, nRows, store, collision_policy, i, count, req,
           obj_type, entry_elem, calls, store0, log_buf, log_file, emitted,
           abort_cause, fn_in, fn_out >>

\* Text of the exception the transport layer raises.
TransportError == "transport failure"

\* The header row of open_logger.
Header ==
    [row |-> 0, status |-> "status", message |-> "message",
     summary |-> <<"s","u","m","m","a","r","y">>, xml |-> "xml"]

\* One audit row.  row is the index of the input row being processed; the
\* timestamp and the four request columns are copied from that row.  A
\* message is the fixed text of the f-string; where the code appends the
\* exception text, so does the model.
AuditRow(status, message, summary, xml) ==
    [row |-> i, status |-> status, message |-> message,
     summary |-> summary, xml |-> xml]

\* csv.writer.writerow on the buffered file object
writerow(rec) ==
    /\ emitted' = Append(emitted, rec)
    /\ IF Len(log_buf) >= MaxBuffered
       THEN /\ log_file' = log_file \o log_buf
            /\ log_buf' = << rec >>
       ELSE /\ log_buf' = Append(log_buf, rec)
            /\ log_file' = log_file

\* The process ends on an uncaught exception: the buffered rows reach the
\* file only if interpreter shutdown finalizes the still-open file object.
Abort(cause, buffered) ==
    /\ pc' = "aborted"
    /\ abort_cause' = cause
    /\ \E flushed \in BOOLEAN :
          /\ log_file' = IF flushed THEN log_file \o buffered ELSE log_file
          /\ log_buf' = << >>
    /\ emitted' = emitted

\* Variant that starts the request over after its audit row is written.
Return_Retry ==
    /\ count' = count
    /\ pc' = "src_read"
    /\ abort_cause' = abort_cause

\* move_one returns to the loop in main
Return ==
    /\ count' = count + 1
    /\ pc' = "loop"
    /\ abort_cause' = abort_cause

\* No response body: the call failed, or it was not a 'get'.
NoBody == [kind |-> "none", entries |-> << >>]

\* No element: the call was not a 'set'.
NoElement == [kind |-> "none"]

\* One remote call: the statement that issued it, the API action, the
\* xpath, the element a 'set' sends, whether the transport succeeded, the
\* body a 'get' returned.
CallWith(site, op, xpath, element, ok, body) ==
    calls' = Append(calls, [site |-> site, op |-> op, xpath |-> xpath,
                            element |-> element, ok |-> ok, body |-> body])

Call(site, op, xpath, ok, body) == CallWith(site, op, xpath, NoElement, ok, body)

\* Body of a 'get' whose transport outcome is res.
GetBody(res, xpath) ==
    IF res = "ok" THEN StoreGet(store, xpath)
    ELSE IF res = "garbage" THEN Garbage
    ELSE NoBody

\* os.getenv("MOVE_COLLISION", "skip").lower().strip()
PolicyOf(env) == Strip(Lower(IF env = << >> THEN s_skip ELSE env[1]))

StripRow(r) ==
    [object_name |-> Strip(r.object_name), object_type |-> Strip(r.object_type),
     src_scope |-> Strip(r.src_scope), dst_scope |-> Strip(r.dst_scope)]

NoRequest ==
    [object_name |-> << >>, object_type |-> << >>,
     src_scope |-> << >>, dst_scope |-> << >>]

src_entry_xpath == entry_xpath_for_scope(req.src_scope, obj_type, req.object_name)

dst_entry_xpath == entry_xpath_for_scope(req.dst_scope, obj_type, req.object_name)

\* Variant that addresses the container of the source scope.
dst_container_xpath_OfSource == container_xpath_for_scope(req.src_scope, obj_type)

dst_container_xpath == container_xpath_for_scope(req.dst_scope, obj_type)

entry_xml_str == serialize_entry(entry_elem[1])

Init ==
    /\ pc = "main"
    /\ policy_env \in PolicyEnvs
    /\ nRows \in 0..MaxRows
    /\ store \in Stores
    /\ collision_policy = << >>
    /\ i = 0
    /\ count = 0
    /\ req = NoRequest
    /\ obj_type = << >>
    /\ entry_elem = << >>
    /\ calls = << >>
    /\ store0 = store
    /\ log_buf = << >>
    /\ log_file = << >>
    /\ emitted = << >>
    /\ abort_cause = ""
    /\ fn_in = << >>
    /\ fn_out = << >>

\* ------------------------------------------------------------ move_one
\* Variant without the skip branch.
CollisionBranch_NoSkip(exists, policy) ==
    IF exists /\ policy = s_overwrite THEN "pre_delete" ELSE "write"

\* Variant without the delete before an overwrite.
CollisionBranch_NoPreDelete(exists, policy) ==
    IF exists /\ policy = s_skip THEN "skip" ELSE "write"

\* Which branch move_one takes after the collision check (lines 201-219).
CollisionBranch(exists, policy) ==
    IF exists
    THEN IF policy = s_skip THEN "skip"
         ELSE IF policy = s_overwrite THEN "pre_delete"
         ELSE "write"
    ELSE "write"

\* Variant that reports a failed source delete as a clean move.
SrcDeleteResult_AlwaysMoved(ok) == [status |-> "moved", message |-> "ok"]

\* Variant that reports a failed source delete as an error.
SrcDeleteResult_ErrorOnFail(ok) ==
    IF ok
    THEN [status |-> "moved", message |-> "ok"]
    ELSE [status |-> "error",
          message |-> "Added to dst but failed to delete from src: " \o TransportError]

\* status and message after the source delete (lines 240-249).
SrcDeleteResult(ok) ==
    IF ok
    THEN [status |-> "moved", message |-> "ok"]
    ELSE [status |-> "copied",
          message |-> "Added to dst but failed to delete from src: " \o TransportError]

\* ---------------------------------------------------------------- main
\* Variant in which a missing setting or an unreadable input file is noted
\* but does not stop the run.
MainStart_ErrorsNotFatal ==
    /\ pc = "main"
    /\ \E cfg_ok \in BOOLEAN, input_ok \in BOOLEAN :
          abort_cause' = IF ~cfg_ok THEN "config"
                         ELSE IF ~input_ok THEN "input" ELSE abort_cause
    /\ collision_policy' = PolicyOf(policy_env)
    /\ log_buf' = << Header >>
    /\ pc' = "loop"
    /\ UNCHANGED << fn_in, fn_out, policy_env, nRows, store, i, count, req,
                    obj_type, entry_elem, calls, store0, log_file, emitted >>

\* main up to the loop: read_config, the policy, open_logger, open(input_csv).
MainStart ==
    /\ pc = "main"
    /\ \E cfg_ok \in BOOLEAN, input_ok \in BOOLEAN :
          IF ~cfg_ok
          THEN /\ Abort("config", log_buf)
               /\ UNCHANGED collision_policy
          ELSE /\ collision_policy' = PolicyOf(policy_env)
               /\ IF ~input_ok
                  THEN Abort("input", << Header >>)
                  ELSE /\ log_buf' = << Header >>
                       /\ log_file' = log_file
                       /\ emitted' = emitted
                       /\ pc' = "loop"
                       /\ abort_cause' = abort_cause
    /\ UNCHANGED << fn_in, fn_out, policy_env, nRows, store, i, count, req, obj_type,
                    entry_elem, calls, store0 >>

\* Variant that trims the type but keeps its letter case.
NormType_NoLower(t) == Strip(t)

\* obj_type.strip().lower() (line 175)
NormType(t) == Lower(Strip(t))

\* The reader yields the next row; move_one runs up to its first remote call.
FetchRow ==
    /\ pc = "loop"
    /\ i < nRows
    /\ \E r \in Requests :
          /\ req' = StripRow(r)
          /\ obj_type' = NormType(req'.object_type)
    /\ i' = i + 1
    /\ calls' = << >>
    /\ store0' = store
    /\ entry_elem' = << >>
    /\ IF obj_type' \notin DOMAIN SUPPORTED_TYPES
       THEN /\ writerow([AuditRow("error", "Unsupported type", << >>, "")
                            EXCEPT !.row = i'])
            /\ Return
       ELSE /\ pc' = "src_read"
            /\ UNCHANGED << count, log_buf, log_file, emitted, abort_cause >>
    /\ UNCHANGED << fn_in, fn_out, policy_env, nRows, store, collision_policy >>

\* The reader is exhausted: log_f.close() and the closing messages.
Finish ==
    /\ pc = "loop"
    /\ i = nRows
    /\ log_file' = log_file \o log_buf
    /\ log_buf' = << >>
    /\ pc' = "done"
    /\ UNCHANGED << fn_in, fn_out, policy_env, nRows, store, collision_policy, i, count, req,
                    obj_type, entry_elem, calls, store0, emitted, abort_cause >>

\* 1) Read source entry (lines 183-198).
SrcRead ==
    /\ pc = "src_read"
    /\ \E res \in {"fail", "ok", "garbage"} :
          /\ Call("src_read", "get", src_entry_xpath, res # "fail",
                  GetBody(res, src_entry_xpath))
          /\ IF res = "fail"
             THEN /\ writerow(AuditRow("error",
                        "API get failed from src: " \o TransportError, << >>, ""))
                  /\ Return
                  /\ UNCHANGED entry_elem
             ELSE LET src_xml == GetBody(res, src_entry_xpath)
                  IN  /\ entry_elem' = extract_entry_xml(src_xml)
                      /\ IF entry_elem' = << >>
                         THEN /\ writerow(AuditRow("error",
                                    "Object not found in source scope", << >>, src_xml))
                              /\ Return
                         ELSE /\ pc' = "dst_check"
                              /\ UNCHANGED << count, log_buf, log_file, emitted, abort_cause >>
    /\ UNCHANGED << fn_in, fn_out, policy_env, nRows, store, collision_policy, i, req,
                    obj_type, store0 >>

\* object_exists_in_scope applied to the body of its 'get' (lines 162-166).
object_exists_in_scope(xml) == extract_entry_xml(xml) # << >>

\* 2) Collision check at destination (lines 200-208); the 'get' inside
\* object_exists_in_scope is outside every try block.
DstCheck ==
    /\ pc = "dst_check"
    /\ \E res \in {"fail", "ok", "garbage"} :
          /\ Call("dst_check", "get", dst_entry_xpath, res # "fail",
                  GetBody(res, dst_entry_xpath))
          /\ IF res = "fail"
             THEN /\ Abort("move_one", log_buf)
                  /\ UNCHANGED count
             ELSE LET xml == GetBody(res, dst_entry_xpath)
                      branch == CollisionBranch(object_exists_in_scope(xml),
                                                collision_policy)
                  IN  IF branch = "skip"
                      THEN /\ writerow(AuditRow("skipped",
                                 "Destination already has object with same name. Skipping.",
                                 make_summary(obj_type, entry_elem[1]),
                                 serialize_entry(entry_elem[1])))
                           /\ Return
                      ELSE /\ pc' = branch
                           /\ UNCHANGED << count, log_buf, log_file, emitted, abort_cause >>
    /\ UNCHANGED << fn_in, fn_out, policy_env, nRows, store, collision_policy, i, req,
                    obj_type, entry_elem, store0 >>

\* Overwrite: delete the destination entry first (lines 209-219).
PreDelete ==
    /\ pc = "pre_delete"
    /\ \E ok \in BOOLEAN :
          /\ Call("pre_delete", "delete", dst_entry_xpath, ok, NoBody)
          /\ IF ok
             THEN /\ store' = StoreDelete(store, dst_entry_xpath)
                  /\ pc' = "write"
                  /\ UNCHANGED << count, log_buf, log_file, emitted, abort_cause >>
             ELSE /\ writerow(AuditRow("error",
                        "Failed to delete existing dst object before overwrite: "
                            \o TransportError,
                        make_summary(obj_type, entry_elem[1]),
                        serialize_entry(entry_elem[1])))
                  /\ Return
                  /\ UNCHANGED store
    /\ UNCHANGED << fn_in, fn_out, policy_env, nRows, collision_policy, i, req, obj_type,
                    entry_elem, store0 >>

\* 3) Add to destination (lines 221-237).
Write ==
    /\ pc = "write"
    /\ \E ok \in BOOLEAN :
          /\ CallWith("write", "set", dst_container_xpath, entry_xml_str, ok, NoBody)
          /\ IF ok
             THEN /\ store' = StoreSet(store, dst_container_xpath, entry_xml_str)
                  /\ pc' = "src_delete"
                  /\ UNCHANGED << count, log_buf, log_file, emitted, abort_cause >>
             ELSE /\ writerow(AuditRow("error",
                        "Failed to add to destination: " \o TransportError,
                        make_summary(obj_type, entry_elem[1]), entry_xml_str))
                  /\ Return
                  /\ UNCHANGED store
    /\ UNCHANGED << fn_in, fn_out, policy_env, nRows, collision_policy, i, req, obj_type,
                    entry_elem, store0 >>

\* 4) Delete from source and 5) log (lines 239-253).
SrcDelete ==
    /\ pc = "src_delete"
    /\ \E ok \in BOOLEAN :
          /\ Call("src_delete", "delete", src_entry_xpath, ok, NoBody)
          /\ store' = IF ok THEN StoreDelete(store, src_entry_xpath) ELSE store
          /\ writerow(AuditRow(SrcDeleteResult(ok).status, SrcDeleteResult(ok).message,
                               make_summary(obj_type, entry_elem[1]), entry_xml_str))
          /\ Return
    /\ UNCHANGED << fn_in, fn_out, policy_env, nRows, collision_policy, i, req, obj_type,
                    entry_elem, store0 >>

Running == {"main", "loop", "src_read", "dst_check", "pre_delete", "write", "src_delete"}

\* The process is killed outright: what is still buffered is lost.
Crash ==
    /\ pc \in Running
    /\ pc' = "crashed"
    /\ log_buf' = << >>
    /\ UNCHANGED << fn_in, fn_out, policy_env, nRows, store, collision_policy, i, count, req,
                    obj_type, entry_elem, calls, store0, log_file, emitted,
                    abort_cause >>

Next ==
    \/ MainStart
    \/ FetchRow
    \/ Finish
    \/ SrcRead
    \/ DstCheck
    \/ PreDelete
    \/ Write
    \/ SrcDelete

Spec == Init /\ [][Next]_vars

NextCrash == Next \/ Crash

SpecCrash == Init /\ [][NextCrash]_vars

\* ------------------------------------------ make_summary on its own
AddressFields == {"./ip-netmask", "./ip-range", "./fqdn", "./description"}

\* How a child element occurs in an entry: not at all, without text, with
\* text, with text that ends in a blank.
FieldShapes(p) ==
    IF p = "./description" THEN {"missing", "empty", "text", "padded"}
    ELSE {"missing", "empty", "text"}

FieldText(p, shape) ==
    IF shape = "empty" THEN << >>
    ELSE (IF p = "./ip-netmask" THEN <<"1","0",".","0",".","0",".","5">>
          ELSE IF p = "./ip-range" THEN <<"1","-","2">>
          ELSE IF p = "./fqdn" THEN <<"a",".","b">>
          ELSE <<"d","b">>)
         \o (IF shape = "padded" THEN <<" ">> ELSE << >>)

\* The address entries make_summary is applied to.
AddressEntries ==
    { MkEntry(<<"w","e","b","0","1">>,
              [p \in {q \in AddressFields : c[q] # "missing"} |->
                  << FieldText(p, c[p]) >>]) :
        c \in { f \in [AddressFields -> {"missing", "empty", "text", "padded"}] :
                   \A p \in AddressFields : f[p] \in FieldShapes(p) } }

InitSummary ==
    /\ pc = "make_summary"
    /\ policy_env = << >>
    /\ nRows = 0
    /\ store = << >>
    /\ collision_policy = << >>
    /\ i = 0
    /\ count = 0
    /\ req = NoRequest
    /\ obj_type = t_address
    /\ entry_elem = << >>
    /\ calls = << >>
    /\ store0 = << >>
    /\ log_buf = << >>
    /\ log_file = << >>
    /\ emitted = << >>
    /\ abort_cause = ""
    /\ fn_in \in { << e >> : e \in AddressEntries }
    /\ fn_out = << >>

Summarize ==
    /\ pc = "make_summary"
    /\ fn_out = << >>
    /\ fn_out' = << make_summary(obj_type, fn_in[1]) >>
    /\ UNCHANGED << fn_in, pc, policy_env, nRows, store, collision_policy, i,
                    count, req, obj_type, entry_elem, calls, store0, log_buf,
                    log_file, emitted, abort_cause >>

NextSummary == Summarize

SpecSummary == InitSummary /\ [][NextSummary]_vars

\* -------------------------------------------- the xpath as a string
\* The literal pieces of the f-strings of lines 110-112 and 116.
xp_shared ==
    <<"/","c","o","n","f","i","g","/","s","h","a","r","e","d","/">>

xp_device_group ==
    <<"/","c","o","n","f","i","g","/","d","e","v","i","c","e","s","/","e",
      "n","t","r","y","[","@","n","a","m","e","=","'","l","o","c","a","l",
      "h","o","s","t",".","l","o","c","a","l","d","o","m","a","i","n","'",
      "]","/","d","e","v","i","c","e","-","g","r","o","u","p","/","e","n",
      "t","r","y","[","@","n","a","m","e","=","'">>

xp_close_scope ==
    <<"'","]","/">>

xp_entry ==
    <<"/","e","n","t","r","y","[","@","n","a","m","e","=","'">>

xp_close_entry ==
    <<"'","]">>

\* The string container_xpath_for_scope returns, from its parts.
ContainerText(container) ==
    IF container.dg = << >>
    THEN xp_shared \o container.node
    ELSE xp_device_group \o container.dg[1] \o xp_close_scope \o container.node

\* The string entry_xpath_for_scope returns, from its parts.
EntryText(xpath) ==
    ContainerText(xpath.container) \o xp_entry \o xpath.entry \o xp_close_entry

\* Scope and object names the two functions are applied to on their own;
\* neither function restricts the characters of a name.
PathScopes ==
    { s_shared,
      <<"S","h","a","r","e","d">>,
      <<"D","G","-","A">>,
      <<"d","g","-","a">>,
      <<"A">>,
      <<"A","'","]","/","a","d","d","r","e","s","s","/","e","n","t","r","y",
        "[","@","n","a","m","e","=","'","b">> }

PathNames ==
    { <<"w","e","b","0","1">>,
      <<"c">>,
      <<"b","'","]","/","a","d","d","r","e","s","s","/","e","n","t","r","y",
        "[","@","n","a","m","e","=","'","c">> }

PathTriples == [scope : PathScopes, type : {t_address, t_service}, name : PathNames]

InitPaths ==
    /\ pc = "entry_xpath_for_scope"
    /\ policy_env = << >>
    /\ nRows = 0
    /\ store = << >>
    /\ collision_policy = << >>
    /\ i = 0
    /\ count = 0
    /\ req = NoRequest
    /\ obj_type = << >>
    /\ entry_elem = << >>
    /\ calls = << >>
    /\ store0 = << >>
    /\ log_buf = << >>
    /\ log_file = << >>
    /\ emitted = << >>
    /\ abort_cause = ""
    /\ fn_in \in PathTriples \X PathTriples
    /\ fn_out = << >>

\* entry_xpath_for_scope applied to both triples.
AddressBoth ==
    /\ pc = "entry_xpath_for_scope"
    /\ fn_out = << >>
    /\ fn_out' =
          << EntryText(entry_xpath_for_scope(fn_in[1].scope, fn_in[1].type, fn_in[1].name)),
             EntryText(entry_xpath_for_scope(fn_in[2].scope, fn_in[2].type, fn_in[2].name)) >>
    /\ UNCHANGED << fn_in, pc, policy_env, nRows, store, collision_policy, i,
                    count, req, obj_type, entry_elem, calls, store0, log_buf,
                    log_file, emitted, abort_cause >>

NextPaths == AddressBoth

SpecPaths == InitPaths /\ [][NextPaths]_vars

\* ------------------------------------------------- vocabulary of the claims
Outcomes == {"moved", "copied", "skipped", "error"}

\* move_one has returned for row i and nothing has happened since.
Returned == pc \in {"loop", "done"} /\ i >= 1

LastEmitted == emitted[Len(emitted)]

\* The audit rows produced for input row k.
RowsFor(k) == { j \in DOMAIN emitted : emitted[j].row = k }

\* move_one has returned for row i with this outcome.
EndedWith(status) ==
    /\ Returned
    /\ emitted # << >>
    /\ LastEmitted.row = i
    /\ LastEmitted.status = status

Issued(site) == \E k \in DOMAIN calls : calls[k].site = site

Succeeded(site) == \E k \in DOMAIN calls : calls[k].site = site /\ calls[k].ok

Failed(site) == \E k \in DOMAIN calls : calls[k].site = site /\ ~calls[k].ok

\* A 'get' issued at site returned a body holding an entry.
FoundEntry(site) ==
    \E k \in DOMAIN calls :
        /\ calls[k].site = site
        /\ calls[k].ok
        /\ calls[k].body.kind = "xml"
        /\ calls[k].body.entries # << >>

\* A 'get' issued at site succeeded at transport level without an entry.
FoundNothing(site) ==
    \E k \in DOMAIN calls :
        /\ calls[k].site = site
        /\ calls[k].ok
        /\ calls[k].body.entries = << >>

SrcHolds(st) == src_entry_xpath \in DOMAIN st

DstHolds(st) == dst_entry_xpath \in DOMAIN st

TwoPolicies == collision_policy \in {s_skip, s_overwrite}

\* C1: whenever move_one has returned with outcome moved under policy skip
\* or overwrite, the destination scope holds the object and the source
\* scope does not.
C1_MovedMeansRelocated ==
    (EndedWith("moved") /\ TwoPolicies) => (DstHolds(store) /\ ~SrcHolds(store))

\* C2: every row whose processing has ended, by return or by exception, has
\* exactly one audit row, no row ever has two, and every outcome is one of
\* moved, copied, skipped, error.
C2_ExactlyOneRecord ==
    /\ \A k \in 1..count : Cardinality(RowsFor(k)) = 1
    /\ (abort_cause = "move_one") => Cardinality(RowsFor(i)) = 1
    /\ \A k \in 1..i : Cardinality(RowsFor(k)) <= 1
    /\ \A j \in DOMAIN emitted : emitted[j].status \in Outcomes

\* C3: a transport failure of a remote call never ends the process; once
\* the call has failed move_one has returned with an audit row whose outcome
\* is copied for the source delete and error for every other call.
C3_FailuresBecomeRecords ==
    /\ abort_cause # "move_one"
    /\ \A k \in DOMAIN calls :
          ~calls[k].ok =>
              /\ k = Len(calls)
              /\ Returned
              /\ Cardinality(RowsFor(i)) = 1
              /\ LastEmitted.row = i
              /\ LastEmitted.status =
                    IF calls[k].site = "src_delete" THEN "copied" ELSE "error"

\* C4: the driver handles the rows in input order, one audit row per input
\* row in that order, is never stopped by a row, and when it has ended the
\* audit file holds the header and then exactly one row per input row.
C4_BatchRunsToTheEnd ==
    /\ pc = "aborted" => abort_cause \in {"config", "input"}
    /\ \A j \in DOMAIN emitted : emitted[j].row = j
    /\ pc \in {"loop", "done"} => (count = i /\ Len(emitted) = i)
    /\ pc = "done" =>
          /\ i = nRows
          /\ log_file = << Header >> \o emitted

\* C5: if the destination write succeeded and the source delete failed, the
\* outcome is copied and both the destination and the source hold the object.
C5_CopiedKeepsBoth ==
    (Succeeded("write") /\ Failed("src_delete")) =>
        /\ EndedWith("copied")
        /\ DstHolds(store)
        /\ SrcHolds(store)

C5_Witness ==
    Succeeded("write") /\ Failed("src_delete") /\ pc = "loop"

\* C6: if the destination write failed under policy skip or overwrite, the
\* outcome is error, no source delete was issued, and the object is at the
\* source scope and only there.
C6_WriteFailureKeepsSource ==
    (Failed("write") /\ TwoPolicies) =>
        /\ EndedWith("error")
        /\ ~Issued("src_delete")
        /\ SrcHolds(store)
        /\ (dst_entry_xpath # src_entry_xpath => ~DstHolds(store))

\* C7: if the destination existence check found an entry and the policy is
\* skip, no write and no delete is issued, the outcome is skipped and the
\* store is as it was when the request began.
C7_SkipTouchesNothing ==
    (FoundEntry("dst_check") /\ collision_policy = s_skip) =>
        /\ \A k \in DOMAIN calls : calls[k].op = "get"
        /\ EndedWith("skipped")
        /\ store = store0

C7_Witness ==
    FoundEntry("dst_check") /\ collision_policy = s_skip /\ pc = "loop"

\* C8: whenever a row is being processed, and whenever the process has been
\* killed, the audit rows of all rows completed before are in the audit file.
C8_PriorRowsDurable ==
    pc \in {"src_read", "dst_check", "pre_delete", "write", "src_delete", "crashed"} =>
        \A k \in 1..count : \E j \in DOMAIN log_file : log_file[j].row = k

\* C9: if the destination existence check found an entry and the policy is
\* overwrite, the next call is a delete of the destination entry; if it
\* fails the outcome is error and no further call is made, if it succeeds
\* the next call is the destination write.
C9_OverwriteDeletesFirst ==
    (FoundEntry("dst_check") /\ collision_policy = s_overwrite) =>
        /\ calls[2].site = "dst_check"
        /\ IF Len(calls) = 2 THEN pc = "pre_delete"
           ELSE /\ calls[3].site = "pre_delete"
                /\ calls[3].op = "delete"
                /\ calls[3].xpath = dst_entry_xpath
        /\ (Len(calls) >= 3 /\ ~calls[3].ok) =>
              /\ Len(calls) = 3
              /\ EndedWith("error")
        /\ (Len(calls) >= 3 /\ calls[3].ok) =>
              IF Len(calls) = 3 THEN pc = "write"
              ELSE /\ calls[4].site = "write"
                   /\ calls[4].op = "set"
                   /\ calls[4].xpath = dst_container_xpath

C9_Witness ==
    /\ FoundEntry("dst_check")
    /\ collision_policy = s_overwrite
    /\ Succeeded("pre_delete")
    /\ Issued("write")

\* C10: if the source read succeeded at transport level without a matching
\* entry, the outcome is error with the not-found message and the source
\* read is the only remote call of the request.
C10_NotFoundStopsRequest ==
    FoundNothing("src_read") =>
        /\ Len(calls) = 1
        /\ EndedWith("error")
        /\ LastEmitted.message = "Object not found in source scope"

C10_Witness ==
    /\ FoundNothing("src_read")
    /\ calls[1].body.kind = "garbage"
    /\ pc = "loop"

\* C11: if the source read returned the entry, the destination existence
\* read returned none, and the write and the source delete succeeded, the
\* calls are exactly: get of the source entry, get of the destination entry,
\* set of the source entry at the destination container, delete of the
\* source entry; the outcome is moved with message "ok".
C11_CleanMoveCallSequence ==
    (/\ FoundEntry("src_read")
     /\ FoundNothing("dst_check")
     /\ Succeeded("write")
     /\ Succeeded("src_delete")) =>
        /\ Len(calls) = 4
        /\ calls[1].op = "get" /\ calls[1].xpath = src_entry_xpath
        /\ calls[2].op = "get" /\ calls[2].xpath = dst_entry_xpath
        /\ calls[3].op = "set"
        /\ calls[3].xpath = container_xpath_for_scope(req.dst_scope, obj_type)
        /\ calls[3].element =
              serialize_entry(MkEntry(req.object_name, store0[src_entry_xpath]))
        /\ calls[4].op = "delete" /\ calls[4].xpath = src_entry_xpath
        /\ EndedWith("moved")
        /\ LastEmitted.message = "ok"

C11_Witness ==
    /\ FoundEntry("src_read")
    /\ FoundNothing("dst_check")
    /\ Succeeded("write")
    /\ Succeeded("src_delete")
    /\ req.src_scope # req.dst_scope
    /\ pc = "loop"

\* C12: if the row's type, trimmed and lower-cased, is none of address,
\* address-group, service, service-group, the request ends in error without
\* any remote call and with empty summary and xml; otherwise the request is
\* processed as that supported type, starting with the read of the source
\* entry of that type.
C12_TypeValidation ==
    i >= 1 =>
        LET norm == Lower(Strip(req.object_type)) IN
        IF norm \notin {t_address, t_address_group, t_service, t_service_group}
        THEN /\ calls = << >>
             /\ EndedWith("error")
             /\ LastEmitted.summary = << >>
             /\ LastEmitted.xml = ""
        ELSE /\ obj_type = norm
             /\ \/ pc = "src_read" /\ calls = << >>
                \/ /\ calls # << >>
                   /\ calls[1].xpath =
                         entry_xpath_for_scope(req.src_scope, norm, req.object_name)

C12_Witness ==
    /\ req.object_type = <<"h","o","s","t">>
    /\ EndedWith("error")
    /\ calls = << >>

\* C13: a request that ended with outcome error has no successful
\* destination write; a request whose write succeeded and that left the
\* object in both of two distinct scopes ended with outcome copied.
C13_ErrorNeverAfterWrite ==
    /\ EndedWith("error") => ~Succeeded("write")
    /\ (/\ Returned
        /\ Succeeded("write")
        /\ src_entry_xpath # dst_entry_xpath
        /\ SrcHolds(store)
        /\ DstHolds(store)) => EndedWith("copied")

C13_Witness ==
    /\ EndedWith("error")
    /\ Failed("write")

\* Text of the child element at path p of the entry, "" if there is none.
TextOrEmpty(e, p) == IF p \in DOMAIN e.children THEN e.children[p][1] ELSE << >>

\* Text of the first of ip-netmask, ip-range, fqdn the entry has.
FirstPresent(e) ==
    IF "./ip-netmask" \in DOMAIN e.children THEN e.children["./ip-netmask"][1]
    ELSE IF "./ip-range" \in DOMAIN e.children THEN e.children["./ip-range"][1]
    ELSE TextOrEmpty(e, "./fqdn")

\* Text of the first of ip-netmask, ip-range, fqdn that has any text.
FirstNonEmpty(e) ==
    IF TextOrEmpty(e, "./ip-netmask") # << >> THEN TextOrEmpty(e, "./ip-netmask")
    ELSE IF TextOrEmpty(e, "./ip-range") # << >> THEN TextOrEmpty(e, "./ip-range")
    ELSE TextOrEmpty(e, "./fqdn")

\* C14 as stated: the address summary is exactly "address: " + v + " | " + d,
\* v the first present of ip-netmask, ip-range, fqdn and d the description.
C14_AddressSummaryAsStated ==
    fn_out # << >> =>
        fn_out[1] = <<"a","d","d","r","e","s","s",":"," ">> \o FirstPresent(fn_in[1])
                        \o <<" ","|"," ">> \o TextOrEmpty(fn_in[1], "./description")

\* C14 amended: the address summary is "address: " + v + " |", followed by a
\* blank and the description without its trailing whitespace when that is
\* not empty; v is the first of ip-netmask, ip-range, fqdn that has text.
C14_AddressSummaryTrimmed ==
    fn_out # << >> =>
        LET d == RStrip(TextOrEmpty(fn_in[1], "./description")) IN
        fn_out[1] = <<"a","d","d","r","e","s","s",":"," ">> \o FirstNonEmpty(fn_in[1])
                        \o <<" ","|">> \o (IF d = << >> THEN << >> ELSE <<" ">> \o d)

C14_Witness ==
    /\ fn_out # << >>
    /\ DOMAIN fn_in[1].children = {"./ip-netmask"}
    /\ fn_in[1].children["./ip-netmask"][1] # << >>
    /\ fn_out[1] = <<"a","d","d","r","e","s","s",":"," ",
                     "1","0",".","0",".","0",".","5"," ","|">>

\* C15: when a required setting is missing or the input file cannot be
\* opened, the run has ended without any row fetched, any remote call, any
\* change of the store, or any audit row written or filed.
C15_StartupFailureIsClean ==
    abort_cause \in {"config", "input"} =>
        /\ pc = "aborted"
        /\ i = 0
        /\ calls = << >>
        /\ store = store0
        /\ emitted = << >>
        /\ \A j \in DOMAIN log_file : log_file[j].row = 0
        /\ log_buf = << >>

C15_Witness ==
    /\ pc = "aborted"
    /\ abort_cause = "input"
    /\ nRows > 0

CallSites == {"src_read", "dst_check", "pre_delete", "write", "src_delete"}

\* C16: within one request each of the five remote operations is issued at
\* most once, whether it succeeds or fails, and once the request's audit row
\* is written control is back in the driver, where no remote call is made.
C16_NoRetry ==
    /\ \A k \in DOMAIN calls : calls[k].site \in CallSites
    /\ \A site \in CallSites :
          Cardinality({ k \in DOMAIN calls : calls[k].site = site }) <= 1
    /\ (i >= 1 /\ RowsFor(i) # {}) => pc \in {"loop", "done"}
    /\ pc \in CallSites => (i >= 1 /\ RowsFor(i) = {})

C16_Witness ==
    /\ Failed("pre_delete")
    /\ Returned
    /\ RowsFor(i) # {}

\* The path the claim describes for one triple.
StatedEntryText(t) ==
    (IF Lower(t.scope) = s_shared
     THEN xp_shared \o t.type
     ELSE xp_device_group \o t.scope \o xp_close_scope \o t.type)
    \o xp_entry \o t.name \o xp_close_entry

\* C17: the entry path of a triple is the shared root and the type node when
\* the scope is "shared" in any letter case, else the sub-scope prefix with
\* the scope's exact name and the type node, each followed by the name
\* segment; and two triples get the same path exactly when their types and
\* names are equal and their scopes are identical or both "shared" in any
\* letter case.
C17_AddressingIsInjective ==
    fn_out # << >> =>
        /\ fn_out[1] = StatedEntryText(fn_in[1])
        /\ fn_out[2] = StatedEntryText(fn_in[2])
        /\ (fn_out[1] = fn_out[2]) <=>
              /\ fn_in[1].type = fn_in[2].type
              /\ fn_in[1].name = fn_in[2].name
              /\ \/ fn_in[1].scope = fn_in[2].scope
                 \/ /\ Lower(fn_in[1].scope) = s_shared
                    /\ Lower(fn_in[2].scope) = s_shared

\* C18: if the source scope held the object when the request began, then
\* under policy skip or overwrite, in every state during and after the
\* request, the object is in the source scope or in the destination scope.
C18_NoDataLoss ==
    (/\ i >= 1
     /\ obj_type \in DOMAIN SUPPORTED_TYPES
     /\ TwoPolicies
     /\ SrcHolds(store0)) => (SrcHolds(store) \/ DstHolds(store))

\* C19: if the destination existence check found an entry and the policy
\* is anything but overwrite, no destination write and no destination
\* delete is issued and the destination entry is what it was.
C19_OnlyOverwriteTouchesDestination ==
    (FoundEntry("dst_check") /\ collision_policy # s_overwrite) =>
        /\ ~Issued("write")
        /\ ~Issued("pre_delete")
        /\ DstHolds(store)
        /\ store[dst_entry_xpath] = store0[dst_entry_xpath]

====
